---------------------------- MODULE Spec2Model ----------------------------
(***************************************************************************)
(* A model of the subtitle tools of movie-subtitles-comparison:            *)
(*                                                                         *)
(*   compare-subs.py       time_to_seconds_simple, find_best_match_simple  *)
(*                         and the time format of the subtitle loader      *)
(*   Data/change_srt_names.py   rename_english_subtitles, preview_changes  *)
(*   Data/extract_subtitles.py  rename_english_to_persian,                 *)
(*                              move_zips_to_archive,                      *)
(*                              flatten_persian_folders                    *)
(*                                                                         *)
(* Strings (time strings, cue texts, file names) are sequences of          *)
(* one-character strings, so that splitting, parsing, formatting and       *)
(* stripping are computed and not assumed.  Times are integers in          *)
(* milliseconds.  The program computes in binary floating point; the cue   *)
(* times of the model are multiples of half a second, for which every sum, *)
(* difference and product the program forms is exact, so that the integer  *)
(* arithmetic of the model and the floats of the program agree, ties       *)
(* included.                                                               *)
(***************************************************************************)
EXTENDS Integers, Sequences, FiniteSets

VARIABLES
    op,             \* the operation under way: "parse", "match", "rename", "preview",
                    \* "english", "zips", "flatten"
    pc,             \* its position
    time_str,       \* time_to_seconds_simple: the argument
    seconds,        \* time_to_seconds_simple: the value returned, <<seconds, milliseconds>>
    eng_start,      \* find_best_match_simple: arguments
    eng_end,
    persian_subs,
    ref_window,     \* the reference cue's <<start, end>> in milliseconds, before formatting
    windows,        \* the candidates' <<start, end>> in milliseconds, before formatting
    eng_start_sec,  \* find_best_match_simple: locals
    eng_end_sec,
    idx,            \* position of the for loop in persian_subs
    best_match,
    best_score,
    overlap,
    result,         \* find_best_match_simple: the value returned
    fs,             \* the filesystem: path -> node
    fs0,            \* the filesystem when the operation started
    movie_dirs,     \* level-1 entries of the root still to visit
    movie_dir,      \* the level-1 entry being visited (<<>>: none)
    entries,        \* entries of movie_dir still to visit
    renamed,        \* paths for which rename printed "Renamed"
    listed,         \* paths preview_changes printed
    errors,         \* paths for which rename printed "Error renaming"
    walk,           \* Path.glob('**/...'): the directories still to visit, a stack of
                    \* the listings taken so far
    found,          \* paths the glob has matched in a directory and not yet yielded
    persian_dir,    \* flatten_persian_folders: the folder being flattened (<<>>: none)
    files_to_move,  \* flatten_persian_folders: the files collected and not yet moved
    after           \* the filesystem at the end of each completed run

alignVars == <<time_str, seconds, eng_start, eng_end, persian_subs, ref_window, windows,
               eng_start_sec,
               eng_end_sec, idx, best_match, best_score, overlap, result>>
fsVars == <<fs, fs0, movie_dirs, movie_dir, entries, renamed, listed, errors>>
extractVars == <<walk, found, persian_dir, files_to_move, after>>
vars == <<op, pc, alignVars, fsVars, extractVars>>

----------------------------------------------------------------------------
(* Bounds of the model *)

\* longest candidate track
MaxLen == 2
\* longest time string handed to time_to_seconds_simple on its own
MaxStrLen == 7

----------------------------------------------------------------------------
(* Strings as sequences of characters *)

Range(s) == {s[k] : k \in 1..Len(s)}

DigitChars == <<"0", "1", "2", "3", "4", "5", "6", "7", "8", "9">>

IsDigit(c) == \E d \in 1..10 : DigitChars[d] = c

DigitVal(c) == (CHOOSE d \in 1..10 : DigitChars[d] = c) - 1

FirstIndex(s, c) == CHOOSE k \in 1..Len(s) : s[k] = c /\ \A j \in 1..(k - 1) : s[j] # c

\* str.split(sep) for a one-character separator
RECURSIVE Split(_, _)
Split(s, sep) ==
    IF sep \notin Range(s)
    THEN <<s>>
    ELSE LET k == FirstIndex(s, sep)
         IN  <<SubSeq(s, 1, k - 1)>> \o Split(SubSeq(s, k + 1, Len(s)), sep)

RECURSIVE DigitsValue(_)
DigitsValue(ds) ==
    IF ds = <<>> THEN 0
    ELSE 10 * DigitsValue(SubSeq(ds, 1, Len(ds) - 1)) + DigitVal(ds[Len(ds)])

\* int(text): a ValueError unless text is a non-empty run of digits
\* (signs, blanks and underscores are not in the alphabet of the model)
IntRaises(ds) == ds = <<>> \/ \E k \in 1..Len(ds) : ~IsDigit(ds[k])

\* float(f"0.{ms_part}"): a ValueError if ms_part holds a non-digit; "0." is 0.0
FloatRaises(ds) == \E k \in 1..Len(ds) : ~IsDigit(ds[k])

MsPerSec == 1000

\* float(f"0.{ms_part}") in milliseconds (exact for up to three digits)
FracMillis(ds) ==
    LET d(k) == IF k <= Len(ds) THEN DigitVal(ds[k]) ELSE 0
    IN  100 * d(1) + 10 * d(2) + d(3)

\* f"{n:02}"
Pad2(n) ==
    IF n < 10 THEN <<"0", DigitChars[n + 1]>>
    ELSE <<DigitChars[(n \div 10) + 1], DigitChars[(n % 10) + 1]>>

\* f"{n:03}"
Pad3(n) == <<DigitChars[(n \div 100) + 1], DigitChars[((n \div 10) % 10) + 1],
             DigitChars[(n % 10) + 1]>>

\* The loader's time format: HH:MM:SS, and .mmm only when milliseconds > 0
FormatTime(ms) ==
    LET hours == ms \div (3600 * MsPerSec)
        minutes == (ms \div (60 * MsPerSec)) % 60
        secs == (ms \div MsPerSec) % 60
        millis == ms % MsPerSec
        start_str == Pad2(hours) \o <<":">> \o Pad2(minutes) \o <<":">> \o Pad2(secs)
    IN  IF millis > 0 THEN start_str \o <<".">> \o Pad3(millis) ELSE start_str

IsSpace(c) == c = " "

\* str.strip()
RECURSIVE Strip(_)
Strip(t) ==
    IF t = <<>> THEN t
    ELSE IF IsSpace(t[1]) THEN Strip(Tail(t))
    ELSE IF IsSpace(t[Len(t)]) THEN Strip(SubSeq(t, 1, Len(t) - 1))
    ELSE t

----------------------------------------------------------------------------
(* time_to_seconds_simple *)

\* A value returned: whole seconds and milliseconds apart, as the whole part of a
\* long digit run does not fit a machine integer once multiplied
Returned(w, m) == [raised |-> FALSE, whole |-> w, millis |-> m]
Raised == [raised |-> TRUE, whole |-> 0, millis |-> 0]

\* a returned value in milliseconds
Millis(r) == r.whole * MsPerSec + r.millis

\* The body of the try block: the value returned, or the exception raised
ParseTime(s) ==
    LET hasDot == "." \in Range(s)
        halves == Split(s, ".")
        time_part == IF hasDot THEN halves[1] ELSE s
        parts == Split(time_part, ":")
    IN  IF hasDot /\ Len(halves) # 2 THEN Raised
        ELSE IF hasDot /\ FloatRaises(halves[2]) THEN Raised
        ELSE IF Len(parts) # 3 THEN Returned(0, 0)
        ELSE IF \E k \in 1..3 : IntRaises(parts[k]) THEN Raised
        ELSE Returned(DigitsValue(parts[1]) * 3600 + DigitsValue(parts[2]) * 60
                      + DigitsValue(parts[3]),
                      IF hasDot THEN FracMillis(halves[2]) ELSE 0)

\* the function without its except clause
TimeToSecondsUnguarded(s) == ParseTime(s)

\* try: ... except: return 0
time_to_seconds_simple(s) ==
    LET r == ParseTime(s)
    IN  IF r.raised THEN Returned(0, 0) ELSE r

----------------------------------------------------------------------------
(* find_best_match_simple *)

Max(a, b) == IF a >= b THEN a ELSE b
Min(a, b) == IF a <= b THEN a ELSE b
Abs(a) == IF a >= 0 THEN a ELSE -a

\* the overlap without the clamp at zero
RawOverlap(es, ee, ps, pe) == Min(ee, pe) - Max(es, ps)

\* min and max exchanged: the span of the two intervals
SpanOverlap(es, ee, ps, pe) == Max(0, Max(ee, pe) - Min(es, ps))

\* overlap_start, overlap_end, overlap
Overlap(es, ee, ps, pe) == Max(0, Min(ee, pe) - Max(es, ps))

\* a score that ignores the distance between the start times
OverlapOnlyScore(es, ee, ps, pe) == Overlap(es, ee, ps, pe) * 10

\* start_diff, score
Score(es, ee, ps, pe) == Overlap(es, ee, ps, pe) * 10 - Abs(es - ps)

\* a comparison that lets a later candidate of equal score win
BetterOrEqual(score, best) == score >= best

\* if score > best_score
Better(score, best) == score > best

\* a placeholder in place of the empty string
Placeholder == <<"-">>

\* the empty string returned for "no match"
NoMatch == <<>>

\* a threshold that admits no candidate without a positive score
ZeroScore == 0 * MsPerSec

\* best_score = -1 (seconds)
InitialBestScore == -1 * MsPerSec

\* a test that takes only the empty text for blank
IsEmptyText(text) == text = <<>>

\* if not ps_text.strip(): continue
IsBlank(text) == Strip(text) = <<>>

\* a loop body that forgets best_score = score
LoopBodyKeepsScore(es, ee, best, cue) ==
    LET ps_start_sec == Millis(time_to_seconds_simple(cue[1]))
        ps_end_sec == Millis(time_to_seconds_simple(cue[2]))
        score == Score(es, ee, ps_start_sec, ps_end_sec)
    IN  IF IsBlank(cue[3]) THEN best
        ELSE IF Better(score, best.score) THEN [match |-> cue[3], score |-> best.score]
        ELSE best

\* One pass of the loop body for a cue, from the locals [match, score]
LoopBody(es, ee, best, cue) ==
    LET ps_start_sec == Millis(time_to_seconds_simple(cue[1]))
        ps_end_sec == Millis(time_to_seconds_simple(cue[2]))
        score == Score(es, ee, ps_start_sec, ps_end_sec)
    IN  IF IsBlank(cue[3]) THEN best
        ELSE IF Better(score, best.score) THEN [match |-> cue[3], score |-> score]
        ELSE best

RECURSIVE LoopFrom(_, _, _, _)
LoopFrom(es, ee, best, subs) ==
    IF subs = <<>> THEN best
    ELSE LoopFrom(es, ee, LoopBody(es, ee, best, Head(subs)), Tail(subs))

\* find_best_match_simple as a function of its arguments
FindBestMatchSimple(start, end, subs) ==
    IF subs = <<>> THEN NoMatch
    ELSE LoopFrom(Millis(time_to_seconds_simple(start)), Millis(time_to_seconds_simple(end)),
                  [match |-> NoMatch, score |-> InitialBestScore], subs).match

\* if not persian_subs: return ""
MatchEmpty ==
    /\ op = "match" /\ pc = "start"
    /\ persian_subs = <<>>
    /\ result' = NoMatch
    /\ pc' = "done"
    /\ UNCHANGED <<op, time_str, seconds, eng_start, eng_end, persian_subs, ref_window, windows,
                   eng_start_sec, eng_end_sec, idx, best_match, best_score, overlap,
                   fsVars, extractVars>>

\* eng_start_sec, eng_end_sec, best_match = "", best_score = -1
MatchBegin ==
    /\ op = "match" /\ pc = "start"
    /\ persian_subs # <<>>
    /\ LET s == time_to_seconds_simple(eng_start)
           e == time_to_seconds_simple(eng_end)
       IN  IF s.raised \/ e.raised
           THEN /\ pc' = "raised"
                /\ UNCHANGED <<eng_start_sec, eng_end_sec, best_match, best_score, idx>>
           ELSE /\ pc' = "loop"
                /\ eng_start_sec' = Millis(s)
                /\ eng_end_sec' = Millis(e)
                /\ best_match' = NoMatch
                /\ best_score' = InitialBestScore
                /\ idx' = 1
    /\ UNCHANGED <<op, time_str, seconds, eng_start, eng_end, persian_subs, ref_window, windows, overlap,
                   result, fsVars, extractVars>>

\* for ps_start, ps_end, ps_text in persian_subs: a blank text is skipped
LoopSkip ==
    /\ op = "match" /\ pc = "loop"
    /\ idx <= Len(persian_subs)
    /\ IsBlank(persian_subs[idx][3])
    /\ idx' = idx + 1
    /\ UNCHANGED <<op, pc, time_str, seconds, eng_start, eng_end, persian_subs, ref_window,
                   windows,
                   eng_start_sec, eng_end_sec, best_match, best_score, overlap, result,
                   fsVars, extractVars>>

\* the loop body for a cue with text
LoopScore ==
    /\ op = "match" /\ pc = "loop"
    /\ idx <= Len(persian_subs)
    /\ ~IsBlank(persian_subs[idx][3])
    /\ LET cue == persian_subs[idx]
           ps == time_to_seconds_simple(cue[1])
           pe == time_to_seconds_simple(cue[2])
           best == LoopBody(eng_start_sec, eng_end_sec,
                            [match |-> best_match, score |-> best_score], cue)
       IN  IF ps.raised \/ pe.raised
           THEN /\ pc' = "raised"
                /\ UNCHANGED <<idx, overlap, best_match, best_score>>
           ELSE /\ pc' = pc
                /\ overlap' = Overlap(eng_start_sec, eng_end_sec, Millis(ps), Millis(pe))
                /\ best_match' = best.match
                /\ best_score' = best.score
                /\ idx' = idx + 1
    /\ UNCHANGED <<op, time_str, seconds, eng_start, eng_end, persian_subs, ref_window, windows,
                   eng_start_sec, eng_end_sec, result, fsVars, extractVars>>

\* return best_match
MatchReturn ==
    /\ op = "match" /\ pc = "loop"
    /\ idx > Len(persian_subs)
    /\ result' = best_match
    /\ pc' = "done"
    /\ UNCHANGED <<op, time_str, seconds, eng_start, eng_end, persian_subs, ref_window, windows,
                   eng_start_sec, eng_end_sec, idx, best_match, best_score, overlap,
                   fsVars, extractVars>>

\* a call of time_to_seconds_simple on its own
ParseCall ==
    /\ op = "parse" /\ pc = "start"
    /\ LET r == time_to_seconds_simple(time_str)
       IN  IF r.raised
           THEN pc' = "raised" /\ UNCHANGED seconds
           ELSE pc' = "done" /\ seconds' = <<r.whole, r.millis>>
    /\ UNCHANGED <<op, time_str, eng_start, eng_end, persian_subs, ref_window, windows,
                   eng_start_sec,
                   eng_end_sec, idx, best_match, best_score, overlap, result, fsVars, extractVars>>

----------------------------------------------------------------------------
(* The inputs of the aligner *)

\* cue times of the tracks, in milliseconds (multiples of 500: exact as floats)
CueTimes == {0, 5000, 5500}

\* reference cues: a long one, a short one and a zero-length one
RefWindows == {<<0, 5500>>, <<5000, 5500>>, <<5000, 5000>>}

\* candidate cues: every window that ends no earlier than it starts, and one that
\* ends before it starts
CueWindows == {w \in CueTimes \X CueTimes : w[1] <= w[2]} \cup {<<5500, 5000>>}

\* cue texts: a blank one and two lines of dialogue
Texts == {<<" ">>, <<"A">>, <<"B">>}

\* a cue as the subtitle file holds it: start and end in milliseconds, and the text
TimedCues ==
    {<<w[1], w[2], t>> : w \in CueWindows, t \in Texts}

TimedTracks == UNION {[1..n -> TimedCues] : n \in 0..MaxLen}

\* the (start_str, end_str, text) triples the loader makes of a track
Loaded(track) ==
    [k \in 1..Len(track) |-> <<FormatTime(track[k][1]), FormatTime(track[k][2]), track[k][3]>>]

TimeAlphabet == {"1", ":", ".", "x"}

\* every string over the alphabet, up to MaxStrLen characters
TimeStrings == UNION {[1..n -> TimeAlphabet] : n \in 0..MaxStrLen}

NoFs == <<>>

ExtractIdle ==
    /\ walk = <<>> /\ found = {} /\ persian_dir = <<>> /\ files_to_move = {}
    /\ after = <<>>

FsIdle ==
    /\ fs = NoFs /\ fs0 = NoFs
    /\ movie_dirs = {} /\ movie_dir = <<>> /\ entries = {}
    /\ renamed = {} /\ listed = {} /\ errors = {}

AlignIdle ==
    /\ time_str = <<>> /\ seconds = <<0, 0>>
    /\ eng_start = <<>> /\ eng_end = <<>> /\ persian_subs = <<>>
    /\ ref_window = <<0, 0>> /\ windows = <<>>
    /\ eng_start_sec = 0 /\ eng_end_sec = 0 /\ idx = 0
    /\ best_match = <<>> /\ best_score = 0 /\ overlap = 0 /\ result = <<>>

InitMatch ==
    /\ op = "match" /\ pc = "start"
    /\ time_str = <<>> /\ seconds = <<0, 0>>
    /\ ref_window \in RefWindows
    /\ eng_start = FormatTime(ref_window[1])
    /\ eng_end = FormatTime(ref_window[2])
    /\ \E track \in TimedTracks :
          /\ windows = [k \in 1..Len(track) |-> <<track[k][1], track[k][2]>>]
          /\ persian_subs = Loaded(track)
    /\ eng_start_sec = 0 /\ eng_end_sec = 0 /\ idx = 0
    /\ best_match = <<>> /\ best_score = 0 /\ overlap = 0 /\ result = <<>>
    /\ FsIdle
    /\ ExtractIdle

InitParse ==
    /\ op = "parse" /\ pc = "start"
    /\ time_str \in TimeStrings
    /\ seconds = <<0, 0>>
    /\ eng_start = <<>> /\ eng_end = <<>> /\ persian_subs = <<>>
    /\ ref_window = <<0, 0>> /\ windows = <<>>
    /\ eng_start_sec = 0 /\ eng_end_sec = 0 /\ idx = 0
    /\ best_match = <<>> /\ best_score = 0 /\ overlap = 0 /\ result = <<>>
    /\ FsIdle
    /\ ExtractIdle

Init == InitMatch \/ InitParse

Next == MatchEmpty \/ MatchBegin \/ LoopSkip \/ LoopScore \/ MatchReturn \/ ParseCall

Spec == Init /\ [][Next]_vars

----------------------------------------------------------------------------
(* The aligner's contract, stated on the arguments and the value returned *)

MatchDone == op = "match" /\ pc = "done"

NCues == Len(persian_subs)

\* the reference window and the candidates' windows, in milliseconds, as the
\* subtitle files give them
RefStart == ref_window[1]
RefEnd == ref_window[2]
CueStart(k) == windows[k][1]
CueEnd(k) == windows[k][2]
CueText(k) == persian_subs[k][3]

\* max(0, min(ref.end, cand.end) - max(ref.start, cand.start))
ClaimOverlap(k) ==
    LET lo == IF RefStart >= CueStart(k) THEN RefStart ELSE CueStart(k)
        hi == IF RefEnd <= CueEnd(k) THEN RefEnd ELSE CueEnd(k)
    IN  IF hi - lo > 0 THEN hi - lo ELSE 0

\* |ref.start - cand.start|
ClaimStartDiff(k) ==
    IF RefStart >= CueStart(k) THEN RefStart - CueStart(k) ELSE CueStart(k) - RefStart

\* 10 * overlap - |ref.start - cand.start|
ClaimScore(k) == 10 * ClaimOverlap(k) - ClaimStartDiff(k)

\* a candidate whose text is neither empty nor blank
HasText(k) == \E c \in 1..Len(CueText(k)) : CueText(k)[c] # " "

\* C1 as stated: the value returned is the text of a candidate of maximal overlap,
\* and the empty string when no candidate has overlap > 0 or the track is empty.
C1_MaxOverlapReturned ==
    MatchDone =>
        IF \E k \in 1..NCues : ClaimOverlap(k) > 0
        THEN \E k \in 1..NCues :
                /\ \A j \in 1..NCues : ClaimOverlap(j) <= ClaimOverlap(k)
                /\ result = CueText(k)
        ELSE result = <<>>

\* C1 amended: the value returned is the text of the first candidate with text whose
\* score 10 * overlap - |ref.start - cand.start| is maximal among the candidates with
\* text, provided that score is above -1 second; otherwise the empty string.
C1_MaxScoreReturned ==
    MatchDone =>
        IF \E k \in 1..NCues : HasText(k) /\ ClaimScore(k) > -1000
        THEN \E k \in 1..NCues :
                /\ HasText(k)
                /\ \A j \in 1..NCues : HasText(j) => ClaimScore(j) <= ClaimScore(k)
                /\ \A j \in 1..(k - 1) : HasText(j) => ClaimScore(j) < ClaimScore(k)
                /\ result = CueText(k)
        ELSE result = <<>>

\* a candidate with text and the greater overlap lost to one with the smaller overlap
C1_Witness ==
    /\ MatchDone
    /\ \E j, k \in 1..NCues :
          /\ HasText(j) /\ HasText(k)
          /\ ClaimOverlap(j) > ClaimOverlap(k)
          /\ CueText(j) # CueText(k)
          /\ result = CueText(k)

ZeroLengthRef == RefStart = RefEnd

\* C2 as stated: a zero-length reference cue gets the empty string from every
\* non-empty track.
C2_ZeroLengthNeverMatches ==
    (MatchDone /\ ZeroLengthRef /\ NCues > 0) => result = <<>>

\* C2 amended: a zero-length reference cue has overlap 0 with every candidate; it gets
\* the text of the first candidate with text whose start is nearest to its own when
\* that start is less than 1 second away, and the empty string otherwise.
C2_ZeroLengthMatchesNearestStart ==
    (MatchDone /\ ZeroLengthRef /\ NCues > 0) =>
        /\ \A k \in 1..NCues : ClaimOverlap(k) = 0
        /\ IF \E k \in 1..NCues : HasText(k) /\ ClaimStartDiff(k) < 1000
           THEN \E k \in 1..NCues :
                   /\ HasText(k)
                   /\ \A j \in 1..NCues : HasText(j) => ClaimStartDiff(j) >= ClaimStartDiff(k)
                   /\ \A j \in 1..(k - 1) : HasText(j) => ClaimStartDiff(j) > ClaimStartDiff(k)
                   /\ result = CueText(k)
           ELSE result = <<>>

\* a zero-length reference cue that got a text
C2_Witness ==
    /\ MatchDone /\ ZeroLengthRef /\ NCues > 0
    /\ result # <<>>

OnlyOverlapping(k) ==
    /\ ClaimOverlap(k) > 0
    /\ \A j \in 1..NCues : j # k => ClaimOverlap(j) = 0

\* C3 as stated: the only candidate with overlap > 0 gives the value returned (here
\* for a candidate with text, whatever the others are).
C3_OnlyOverlappingReturned ==
    MatchDone =>
        \A k \in 1..NCues : (OnlyOverlapping(k) /\ HasText(k)) => result = CueText(k)

\* C3 amended: the only candidate with overlap > 0 gives the value returned when it has
\* text and its overlap times 10 exceeds the distance between its start and the
\* reference start.
C3_OnlyOverlappingWithScoreReturned ==
    MatchDone =>
        \A k \in 1..NCues :
            (OnlyOverlapping(k) /\ HasText(k) /\ ClaimScore(k) > 0) => result = CueText(k)

\* the only overlapping candidate won against another candidate with text
C3_Witness ==
    /\ MatchDone
    /\ \E k, j \in 1..NCues :
          /\ OnlyOverlapping(k) /\ HasText(k) /\ ClaimScore(k) > 0
          /\ j # k /\ HasText(j) /\ CueText(j) # CueText(k)
          /\ result = CueText(k)

MaxOverlap(k) == \A j \in 1..NCues : ClaimOverlap(j) <= ClaimOverlap(k)

\* C4 as stated: of two candidates (with text) with the same, maximal overlap > 0 the
\* first in track order gives the value returned.
C4_FirstOfEqualOverlap ==
    MatchDone =>
        \A j, k \in 1..NCues :
            (/\ j < k
             /\ HasText(j) /\ HasText(k)
             /\ ClaimOverlap(j) = ClaimOverlap(k) /\ MaxOverlap(k) /\ ClaimOverlap(k) > 0
             /\ \A i \in 1..(j - 1) : ClaimOverlap(i) < ClaimOverlap(j))
            => result = CueText(j)

MaxScore(k) == HasText(k) /\ \A j \in 1..NCues : HasText(j) => ClaimScore(j) <= ClaimScore(k)

\* C4 amended: of two candidates with text and the same, maximal score above -1 second
\* the first in track order gives the value returned: only a strictly greater score
\* replaces the candidate kept so far.
C4_FirstOfEqualScore ==
    /\ MatchDone =>
          \A j, k \in 1..NCues :
              (/\ j < k
               /\ MaxScore(j) /\ MaxScore(k) /\ ClaimScore(k) > -1000
               /\ \A i \in 1..(j - 1) : ~MaxScore(i))
              => result = CueText(j)
    /\ (op = "match" /\ pc = "loop" /\ idx > 1 /\ best_match # <<>>) =>
          \E k \in 1..(idx - 1) :
              /\ best_match = CueText(k) /\ best_score = ClaimScore(k)
              /\ \A i \in 1..(k - 1) : HasText(i) => ClaimScore(i) < best_score

\* two candidates with different texts tie at the greatest score; the first is returned
C4_Witness ==
    /\ MatchDone
    /\ \E j, k \in 1..NCues :
          /\ j < k /\ MaxScore(j) /\ MaxScore(k) /\ ClaimScore(k) > -1000
          /\ CueText(j) # CueText(k)
          /\ result = CueText(j)

TrackOrders(n) == {p \in [1..n -> 1..n] : \A a, b \in 1..n : p[a] = p[b] => a = b}

Permuted(p) == [k \in 1..NCues |-> persian_subs[p[k]]]

SameForEveryOrder ==
    \A p \in TrackOrders(NCues) :
        FindBestMatchSimple(eng_start, eng_end, Permuted(p)) = result

\* C5 as stated: when exactly one candidate has the greatest overlap, every permutation
\* of the track gets the same text.
C5_OrderFreeOnUniqueOverlap ==
    (/\ MatchDone
     /\ \E k \in 1..NCues : \A j \in 1..NCues : j # k => ClaimOverlap(j) < ClaimOverlap(k))
    => SameForEveryOrder

\* C5 amended: when exactly one candidate with text has the greatest score among the
\* candidates with text, every permutation of the track gets the same text.
C5_OrderFreeOnUniqueScore ==
    (/\ MatchDone
     /\ \E k \in 1..NCues :
           /\ HasText(k)
           /\ \A j \in 1..NCues : (j # k /\ HasText(j)) => ClaimScore(j) < ClaimScore(k))
    => SameForEveryOrder

\* the winner is the second cue of a track of two candidates with different texts
C5_Witness ==
    /\ MatchDone /\ NCues = 2
    /\ HasText(1) /\ HasText(2) /\ CueText(1) # CueText(2)
    /\ ClaimScore(1) < ClaimScore(2) /\ ClaimScore(1) > -1000
    /\ result = CueText(2)

\* C6: an empty candidate track gets the empty string, whatever the reference cue.
C6_EmptyTrackEmptyString ==
    (MatchDone /\ persian_subs = <<>>) => result = <<>>

\* an empty track, answered
C6_Witness ==
    /\ MatchDone /\ persian_subs = <<>>
    /\ eng_start # eng_end

\* C7: the overlap computed in the loop is never negative.
C7_OverlapNonNegative == overlap >= 0

\* the overlap of a candidate that ends before it starts and lies apart from the
\* reference window has just been computed
C7_Witness ==
    /\ op = "match" /\ pc = "loop" /\ idx > 1
    /\ HasText(idx - 1)
    /\ CueStart(idx - 1) > CueEnd(idx - 1)
    /\ (CueEnd(idx - 1) < RefStart \/ RefEnd < CueStart(idx - 1))
    /\ overlap = 0

\* digits, ":", digits, ":", digits, and optionally "." and digits
WellFormedTime(s) ==
    LET isDigits(t) == \A k \in 1..Len(t) : t[k] \in Range(DigitChars)
        dots == {k \in 1..Len(s) : s[k] = "."}
        clock == IF dots = {} THEN s ELSE SubSeq(s, 1, (CHOOSE k \in dots : TRUE) - 1)
        colons == {k \in 1..Len(clock) : clock[k] = ":"}
    IN  /\ Cardinality(dots) <= 1
        /\ Cardinality(colons) = 2
        /\ \A k \in 1..Len(s) : s[k] \in Range(DigitChars) \cup {":", "."}
        /\ \A k \in colons : k > 1 /\ k < Len(clock) /\ k + 1 \notin colons

\* C8: neither function has an error outcome: time_to_seconds_simple returns a number,
\* and 0 for a string that is not HH:MM:SS[.fraction]; find_best_match_simple walks the
\* track once and returns a text of the track or the empty string.
C8_NoErrorOutcome ==
    /\ pc # "raised"
    /\ (op = "parse" /\ pc = "done") =>
          /\ seconds \in Nat \X (0..999)
          /\ ~WellFormedTime(time_str) => seconds = <<0, 0>>
    /\ op = "match" =>
          /\ pc \in {"start", "loop", "done"}
          /\ pc = "loop" => idx \in 1..(NCues + 1)
          /\ pc = "done" => (result = <<>> \/ \E k \in 1..NCues : result = CueText(k))

\* a string whose parsing raised was answered with 0
C8_Witness ==
    /\ op = "parse" /\ pc = "done"
    /\ ParseTime(time_str).raised
    /\ seconds = <<0, 0>>

\* C14: the value returned is never the text of a candidate whose text is empty or
\* blank: it is the empty string or the text of a candidate of the track that has
\* text, also when a blank candidate has the greatest overlap.
C14_BlankNeverReturned ==
    MatchDone =>
        /\ \/ result = <<>>
           \/ \E k \in 1..NCues : HasText(k) /\ result = CueText(k)
        /\ \A k \in 1..NCues : (~HasText(k) /\ CueText(k) # <<>>) => result # CueText(k)

\* a blank candidate has the greatest overlap, and a later candidate with text and
\* less overlap gives the value returned
C14_Witness ==
    /\ MatchDone
    /\ \E k, j \in 1..NCues :
          /\ ~HasText(k) /\ CueText(k) # <<>>
          /\ \A i \in 1..NCues : i # k => ClaimOverlap(i) < ClaimOverlap(k)
          /\ k < j /\ HasText(j)
          /\ result = CueText(j)

----------------------------------------------------------------------------
(* The filesystem of change_srt_names.py                                   *)
(*                                                                         *)
(* fs maps each existing path below the root directory (a sequence of      *)
(* names) to its node; a file carries the path it had when the operation   *)
(* started, which tells the files apart.  Names are case-sensitive and a   *)
(* rename replaces an existing file, as on POSIX; there are no links.      *)

File(origin) == [kind |-> "file", origin |-> origin]
Dir == [kind |-> "dir", origin |-> <<>>]

Exists(f, p) == p \in DOMAIN f
IsFile(f, p) == Exists(f, p) /\ f[p].kind = "file"
IsDir(f, p) == Exists(f, p) /\ f[p].kind = "dir"

\* the names os.listdir gives for a directory
ListDir(f, p) ==
    {q[Len(q)] : q \in {r \in DOMAIN f : Len(r) = Len(p) + 1 /\ SubSeq(r, 1, Len(p)) = p}}

UpperChars == <<"A", "B", "C", "D", "E", "F", "G", "H", "I", "J", "K", "L", "M",
                "N", "O", "P", "Q", "R", "S", "T", "U", "V", "W", "X", "Y", "Z">>
LowerChars == <<"a", "b", "c", "d", "e", "f", "g", "h", "i", "j", "k", "l", "m",
                "n", "o", "p", "q", "r", "s", "t", "u", "v", "w", "x", "y", "z">>

\* str.lower()
Lower(t) ==
    [k \in 1..Len(t) |->
        IF \E u \in 1..26 : UpperChars[u] = t[k]
        THEN LowerChars[CHOOSE u \in 1..26 : UpperChars[u] = t[k]]
        ELSE t[k]]

\* Path.suffix: from the last dot of the name, unless the dot is its first or its
\* last character
Suffix(name) ==
    LET dots == {k \in 1..Len(name) : name[k] = "."}
        i == CHOOSE k \in dots : \A j \in dots : j <= k
    IN  IF dots # {} /\ 1 < i /\ i < Len(name)
        THEN SubSeq(name, i, Len(name))
        ELSE <<>>

DotSrt == <<".", "s", "r", "t">>
PersianName == <<"p", "e", "r", "s", "i", "a", "n">>
ArchiveName == <<"a", "r", "c", "h", "i", "v", "e">>
EnglishSubtitle == <<"e", "n", "g", "l", "i", "s", "h", "_", "s", "u", "b", "t", "i", "t",
                     "l", "e", ".", "s", "r", "t">>

\* any(part in ['persian', 'archive'] for part in file_path.parts)
InExcludedFolder(p) == \E k \in 1..Len(p) : p[k] \in {PersianName, ArchiveName}

\* the test of rename_english_subtitles
RenameFilter(f, p) ==
    /\ IsFile(f, p)
    /\ Lower(Suffix(p[Len(p)])) = DotSrt
    /\ ~InExcludedFolder(p)

\* a filter that compares the suffix as it is written
PreviewFilterCaseSensitive(f, p) ==
    /\ IsFile(f, p)
    /\ Suffix(p[Len(p)]) = DotSrt
    /\ ~InExcludedFolder(p)

\* the test of preview_changes
PreviewFilter(f, p) ==
    /\ IsFile(f, p)
    /\ Lower(Suffix(p[Len(p)])) = DotSrt
    /\ ~InExcludedFolder(p)

\* os.rename of a file: an existing file at dst is replaced
OsRename(f, src, dst) ==
    [q \in (DOMAIN f \ {src}) \cup {dst} |-> IF q = dst THEN f[src] ELSE f[q]]

\* shutil.move of a file: into dst when dst is a directory (an error when the
\* directory has an entry of that name), onto dst otherwise
ShutilMove(f, src, dst) ==
    LET real_dst == IF IsDir(f, dst) THEN Append(dst, src[Len(src)]) ELSE dst
    IN  IF IsDir(f, dst) /\ Exists(f, real_dst)
        THEN [raised |-> TRUE, fs |-> f]
        ELSE [raised |-> FALSE, fs |-> OsRename(f, src, real_dst)]

\* preview_changes only prints
PreviewEffect(f, paths) == f

----------------------------------------------------------------------------
(* preview_changes *)

PreviewStart ==
    /\ op = "preview" /\ pc = "start"
    /\ movie_dirs' = ListDir(fs, <<>>)
    /\ pc' = "dirs"
    /\ UNCHANGED <<op, alignVars, extractVars, fs, fs0, movie_dir, entries, renamed, listed, errors>>

\* if movie_dir.is_dir(): false
PreviewSkip ==
    /\ op = "preview" /\ pc = "dirs"
    /\ \E d \in movie_dirs :
          /\ ~IsDir(fs, <<d>>)
          /\ movie_dirs' = movie_dirs \ {d}
    /\ UNCHANGED <<op, pc, alignVars, extractVars, fs, fs0, movie_dir, entries, renamed, listed, errors>>

\* the srt_files of one movie directory
PreviewMovieDir ==
    /\ op = "preview" /\ pc = "dirs"
    /\ \E d \in movie_dirs :
          /\ IsDir(fs, <<d>>)
          /\ LET srt_files == {<<d, n>> : n \in {m \in ListDir(fs, <<d>>) :
                                                   PreviewFilter(fs, <<d, m>>)}}
             IN  /\ listed' = listed \cup srt_files
                 /\ fs' = PreviewEffect(fs, srt_files)
          /\ movie_dirs' = movie_dirs \ {d}
    /\ UNCHANGED <<op, pc, alignVars, extractVars, fs0, movie_dir, entries, renamed, errors>>

PreviewDone ==
    /\ op = "preview" /\ pc = "dirs"
    /\ movie_dirs = {}
    /\ pc' = "asked"
    /\ UNCHANGED <<op, alignVars, extractVars, fsVars>>

\* response.lower() == 'y'
Confirm ==
    /\ op = "preview" /\ pc = "asked"
    /\ op' = "rename"
    /\ pc' = "start"
    /\ UNCHANGED <<alignVars, extractVars, fsVars>>

\* any other response
Cancel ==
    /\ op = "preview" /\ pc = "asked"
    /\ pc' = "cancelled"
    /\ UNCHANGED <<op, alignVars, extractVars, fsVars>>

----------------------------------------------------------------------------
(* rename_english_subtitles *)

RenameStart ==
    /\ op = "rename" /\ pc = "start"
    /\ movie_dirs' = ListDir(fs, <<>>)
    /\ pc' = "dirs"
    /\ UNCHANGED <<op, alignVars, extractVars, fs, fs0, movie_dir, entries, renamed, listed, errors>>

\* if movie_dir.is_dir(): false
RenameSkipDir ==
    /\ op = "rename" /\ pc = "dirs"
    /\ \E d \in movie_dirs :
          /\ ~IsDir(fs, <<d>>)
          /\ movie_dirs' = movie_dirs \ {d}
    /\ UNCHANGED <<op, pc, alignVars, extractVars, fs, fs0, movie_dir, entries, renamed, listed, errors>>

\* for file_path in movie_dir.iterdir(): the directory is listed once
RenameEnterDir ==
    /\ op = "rename" /\ pc = "dirs"
    /\ \E d \in movie_dirs :
          /\ IsDir(fs, <<d>>)
          /\ movie_dir' = d
          /\ entries' = ListDir(fs, <<d>>)
    /\ pc' = "files"
    /\ UNCHANGED <<op, alignVars, extractVars, fs, fs0, movie_dirs, renamed, listed, errors>>

\* an entry the test rejects
RenameSkipEntry ==
    /\ op = "rename" /\ pc = "files"
    /\ \E n \in entries :
          /\ ~RenameFilter(fs, <<movie_dir, n>>)
          /\ entries' = entries \ {n}
    /\ UNCHANGED <<op, pc, alignVars, extractVars, fs, fs0, movie_dirs, movie_dir, renamed, listed,
                   errors>>

\* shutil.move(file_path, new_path) inside try/except
RenameMove ==
    /\ op = "rename" /\ pc = "files"
    /\ \E n \in entries :
          LET file_path == <<movie_dir, n>>
              new_path == <<movie_dir, EnglishSubtitle>>
              moved == ShutilMove(fs, file_path, new_path)
          IN  /\ RenameFilter(fs, file_path)
              /\ fs' = moved.fs
              /\ renamed' = IF moved.raised THEN renamed ELSE renamed \cup {file_path}
              /\ errors' = IF moved.raised THEN errors \cup {file_path} ELSE errors
              /\ entries' = entries \ {n}
    /\ UNCHANGED <<op, pc, alignVars, extractVars, fs0, movie_dirs, movie_dir, listed>>

RenameLeaveDir ==
    /\ op = "rename" /\ pc = "files"
    /\ entries = {}
    /\ movie_dirs' = movie_dirs \ {movie_dir}
    /\ movie_dir' = <<>>
    /\ pc' = "dirs"
    /\ UNCHANGED <<op, alignVars, extractVars, fs, fs0, entries, renamed, listed, errors>>

RenameDone ==
    /\ op = "rename" /\ pc = "dirs"
    /\ movie_dirs = {}
    /\ pc' = "done"
    /\ UNCHANGED <<op, alignVars, extractVars, fsVars>>

----------------------------------------------------------------------------
(* The directory trees the scripts are run on *)

MovieName == <<"m">>
ASrt == <<"a", ".", "s", "r", "t">>
BSrtUpper == <<"B", ".", "S", "R", "T">>
NotesTxt == <<"n", ".", "t", "x", "t">>
PSrt == <<"p", ".", "s", "r", "t">>
RootSrt == <<"r", ".", "s", "r", "t">>

\* The entries of a movie directory, below the directory's own path: subtitle files in
\* either case, a file of another kind, english_subtitle.srt as a file or as a
\* directory (empty, or holding a.srt), and a persian/ or archive/ subfolder with a
\* subtitle file in it
MovieContents ==
    {a \cup b \cup t \cup e \cup s :
        a \in {{}, {<<ASrt>>}},
        b \in {{}, {<<BSrtUpper>>}},
        t \in {{}, {<<NotesTxt>>}},
        e \in {{}, {<<EnglishSubtitle>>}, {<<EnglishSubtitle, ASrt>>}},
        s \in {{}, {<<PersianName, PSrt>>}, {<<ArchiveName, PSrt>>}}}

\* the files of english_subtitle.srt-as-a-directory make it a directory; an empty
\* directory of that name is a tree of its own
Trees ==
    {[files |-> c, dirs |-> {}] : c \in MovieContents}
    \cup {[files |-> c, dirs |-> {<<EnglishSubtitle>>}] :
             c \in {x \in MovieContents : \A q \in x : q[1] # EnglishSubtitle}}

\* the proper prefixes of the paths of a tree are its directories
Prefixes(paths) == UNION {{SubSeq(q, 1, k) : k \in 1..(Len(q) - 1)} : q \in paths}

\* the filesystem with the same tree in each of the level-1 directories `tops`,
\* and a subtitle file beside them when `loose`
MakeFs(tops, tree, loose) ==
    LET files == {<<d>> \o q : d \in tops, q \in tree.files}
                 \cup (IF loose THEN {<<RootSrt>>} ELSE {})
        dirs == {<<d>> : d \in tops}
                \cup {<<d>> \o q : d \in tops, q \in tree.dirs \cup Prefixes(tree.files)}
    IN  [q \in files \cup dirs |-> IF q \in files THEN File(q) ELSE Dir]

FileSystems ==
    {MakeFs(tops, tree, loose) :
        tops \in {{MovieName}, {ArchiveName}, {MovieName, ArchiveName}},
        tree \in Trees,
        loose \in BOOLEAN}

InitRename ==
    /\ op = "preview" /\ pc = "start"
    /\ AlignIdle
    /\ fs \in FileSystems
    /\ fs0 = fs
    /\ movie_dirs = {} /\ movie_dir = <<>> /\ entries = {}
    /\ renamed = {} /\ listed = {} /\ errors = {}
    /\ ExtractIdle

NextRename ==
    \/ PreviewStart \/ PreviewSkip \/ PreviewMovieDir \/ PreviewDone
    \/ Confirm \/ Cancel
    \/ RenameStart \/ RenameSkipDir \/ RenameEnterDir \/ RenameSkipEntry \/ RenameMove
    \/ RenameLeaveDir \/ RenameDone

RenameSpec == InitRename /\ [][NextRename]_vars

----------------------------------------------------------------------------
(* The contracts of rename_english_subtitles and preview_changes *)

RenameFinished == op = "rename" /\ pc = "done"

\* a name that ends in .srt, in either case
IsSrtName(n) ==
    /\ Len(n) > 4
    /\ Lower(SubSeq(n, Len(n) - 3, Len(n))) = <<".", "s", "r", "t">>

\* the top-level .srt files of the level-1 directory d in the filesystem f
TopLevelSrt(f, d) ==
    {n \in ListDir(f, <<d>>) : f[<<d, n>>].kind = "file" /\ IsSrtName(n)}

Level1Dirs(f) == {d \in ListDir(f, <<>>) : f[<<d>>].kind = "dir"}

\* the paths below a persian/ or archive/ subfolder of a level-1 directory
InSubfolder(q) == Len(q) >= 3 /\ q[2] \in {PersianName, ArchiveName}

SubfoldersUntouched ==
    /\ \A q \in DOMAIN fs0 : InSubfolder(q) => (q \in DOMAIN fs /\ fs[q] = fs0[q])
    /\ \A q \in DOMAIN fs : InSubfolder(q) => q \in DOMAIN fs0

AllNamedEnglish(d) ==
    /\ TopLevelSrt(fs, d) \subseteq {EnglishSubtitle}
    /\ TopLevelSrt(fs0, d) # {} => TopLevelSrt(fs, d) = {EnglishSubtitle}

\* C9 as stated: after a run without error, every level-1 directory has its top-level
\* .srt files named english_subtitle.srt (exactly one, if it had any), and the files
\* in persian/ and archive/ subfolders are as they were.
C9_EveryDirRenamed ==
    (RenameFinished /\ errors = {}) =>
        /\ \A d \in Level1Dirs(fs) : AllNamedEnglish(d)
        /\ SubfoldersUntouched

\* a level-1 directory the run renames in: not itself named persian or archive, and
\* without a directory english_subtitle.srt
Eligible(d) ==
    /\ d \notin {PersianName, ArchiveName}
    /\ ~(<<d, EnglishSubtitle>> \in DOMAIN fs0 /\ fs0[<<d, EnglishSubtitle>>].kind = "dir")

\* What a run without error does establish: every level-1 directory that is not itself
\* named persian or archive and holds no directory named english_subtitle.srt has its
\* top-level .srt files named english_subtitle.srt (exactly one, if it had any); the
\* files in persian/ and archive/ subfolders are as they were.
C9_EligibleDirsRenamed ==
    (RenameFinished /\ errors = {}) =>
        /\ \A d \in Level1Dirs(fs) : Eligible(d) => AllNamedEnglish(d)
        /\ SubfoldersUntouched

\* a movie directory with two subtitle files and a subfolder is left with one
C9_Witness ==
    /\ RenameFinished /\ errors = {}
    /\ Eligible(MovieName)
    /\ TopLevelSrt(fs0, MovieName) = {ASrt, BSrtUpper}
    /\ TopLevelSrt(fs, MovieName) = {EnglishSubtitle}
    /\ \E q \in DOMAIN fs : InSubfolder(q)

----------------------------------------------------------------------------
(* The filesystem of extract_subtitles.py                                  *)
(*                                                                         *)
(* Path.glob('**/name') walks the tree lazily, depth first: it visits a    *)
(* directory, yields the directory's match (the loop body runs), and only  *)
(* then lists the directory to find the subdirectories to visit next.     *)
(* walk is the stack of those listings; the order inside a listing is      *)
(* os.scandir's, which is unspecified, so any entry of the top listing may *)
(* come next.                                                              *)

Parent(p) == SubSeq(p, 1, Len(p) - 1)
Name(p) == p[Len(p)]

\* q lies below the directory p, at any depth
IsBelow(q, p) == Len(q) > Len(p) /\ SubSeq(q, 1, Len(p)) = p

\* the subdirectories a listing of p finds
Subdirs(f, p) == {q \in DOMAIN f : Len(q) = Len(p) + 1 /\ Parent(q) = p /\ IsDir(f, q)}

\* the glob starts at root_path itself
WalkStart == <<{<<>>}>>

\* listings that are used up are left
RECURSIVE Remaining(_)
Remaining(w) ==
    IF w = <<>> THEN <<>>
    ELSE IF Head(w) = {} THEN Remaining(Tail(w))
    ELSE w

\* after the visit of d, an entry of the top listing: d is listed, and its
\* subdirectories come before the rest
Descend(w, f, d) == Remaining(<<Subdirs(f, d), Head(w) \ {d}>> \o Tail(w))

\* Path.stem
Stem(name) == SubSeq(name, 1, Len(name) - Len(Suffix(name)))

\* str(counter)
RECURSIVE Decimal(_)
Decimal(n) ==
    IF n < 10 THEN <<DigitChars[n + 1]>>
    ELSE Decimal(n \div 10) \o <<DigitChars[(n % 10) + 1]>>

\* f"{stem}_{counter}{suffix}"
Numbered(name, counter) == Stem(name) \o <<"_">> \o Decimal(counter) \o Suffix(name)

----------------------------------------------------------------------------
(* flatten_persian_folders *)

\* a target that is taken as it is, whatever is there
TargetPathUnchecked(f, dir, name) == Append(dir, name)

\* target_path: the file's name in persian_dir, or the first free numbered name
TargetPath(f, dir, name) ==
    IF ~Exists(f, Append(dir, name))
    THEN Append(dir, name)
    ELSE LET free(n) == ~Exists(f, Append(dir, Numbered(name, n)))
             counter == CHOOSE n \in 1..(Cardinality(DOMAIN f) + 1) :
                            free(n) /\ \A k \in 1..(n - 1) : ~free(k)
         IN  Append(dir, Numbered(name, counter))

\* files_to_move: the files of persian_dir.rglob('*') that are not directly in it
FilesToMove(f, dir) ==
    {q \in DOMAIN f : IsBelow(q, dir) /\ IsFile(f, q) /\ Parent(q) # dir}

\* sub_dir.rmdir() for each directory of persian_dir.glob('*/'): the empty ones go
RemoveEmptySubdirs(f, dir) ==
    LET empty == {q \in Subdirs(f, dir) : ~\E r \in DOMAIN f : IsBelow(r, q)}
    IN  [q \in DOMAIN f \ empty |-> f[q]]

\* a directory without an entry named persian
FlattenPass ==
    /\ op = "flatten" /\ pc = "glob" /\ walk # <<>>
    /\ \E d \in Head(walk) :
          /\ ~Exists(fs, Append(d, PersianName))
          /\ walk' = Descend(walk, fs, d)
    /\ UNCHANGED <<op, pc, alignVars, fsVars, found, persian_dir, files_to_move, after>>

\* the glob yields d/persian: the files to move are collected
FlattenCollect ==
    /\ op = "flatten" /\ pc = "glob" /\ walk # <<>>
    /\ \E d \in Head(walk) :
          /\ Exists(fs, Append(d, PersianName))
          /\ persian_dir' = Append(d, PersianName)
          /\ files_to_move' = FilesToMove(fs, Append(d, PersianName))
    /\ pc' = "moving"
    /\ UNCHANGED <<op, alignVars, fsVars, walk, found, after>>

\* shutil.move(str(file_path), str(target_path))
FlattenMove ==
    /\ op = "flatten" /\ pc = "moving"
    /\ \E file_path \in files_to_move :
          LET target_path == TargetPath(fs, persian_dir, Name(file_path))
          IN  /\ fs' = ShutilMove(fs, file_path, target_path).fs
              /\ files_to_move' = files_to_move \ {file_path}
    /\ UNCHANGED <<op, pc, alignVars, fs0, movie_dirs, movie_dir, entries, renamed, listed,
                   errors, walk, found, persian_dir, after>>

\* the empty subdirectories are removed, and the glob goes on below d
FlattenRemove ==
    /\ op = "flatten" /\ pc = "moving"
    /\ files_to_move = {}
    /\ fs' = RemoveEmptySubdirs(fs, persian_dir)
    /\ walk' = Descend(walk, fs', Parent(persian_dir))
    /\ persian_dir' = <<>>
    /\ pc' = "glob"
    /\ UNCHANGED <<op, alignVars, fs0, movie_dirs, movie_dir, entries, renamed, listed,
                   errors, found, files_to_move, after>>

FlattenDone ==
    /\ op = "flatten" /\ pc = "glob"
    /\ walk = <<>>
    /\ pc' = "done"
    /\ after' = Append(after, fs)
    /\ UNCHANGED <<op, alignVars, fsVars, walk, found, persian_dir, files_to_move>>

\* the filesystem with the files and the (empty) directories given, and the
\* directories above them
TreeOf(files, dirs) ==
    [q \in files \cup dirs \cup Prefixes(files \cup dirs) |->
        IF q \in files THEN File(q) ELSE Dir]

XDir == <<"x">>
YDir == <<"y">>
ZDir == <<"z">>
CSrt == <<"c", ".", "s", "r", "t">>
A1Srt == <<"a", "_", "1", ".", "s", "r", "t">>

\* What a persian folder holds, below its own path: a.srt and a_1.srt directly in it,
\* a.srt again in the subfolders x/ and y/ or deeper in y/z/, a file x in the
\* subfolder x/, and a persian folder of its own in x/
PersianContents ==
    {a \cup n \cup x \cup y \cup p :
        a \in {{}, {<<ASrt>>}},
        n \in {{}, {<<A1Srt>>}},
        x \in {{}, {<<XDir, ASrt>>}, {<<XDir, XDir>>}},
        y \in {{}, {<<YDir, ASrt>>}, {<<YDir, ZDir, ASrt>>}},
        p \in {{}, {<<XDir, PersianName, CSrt>>}}}

\* the persian folder lies in the root or in a movie directory; without files it is
\* an empty directory; persian may also be the name of a file
FlattenFileSystems ==
    {TreeOf({Append(d, PersianName) \o q : q \in c}, {Append(d, PersianName)}) :
        d \in {<<>>, <<MovieName>>}, c \in PersianContents}
    \cup {TreeOf({<<PersianName>>}, {})}

InitFlatten ==
    /\ op = "flatten" /\ pc = "glob"
    /\ AlignIdle
    /\ fs \in FlattenFileSystems
    /\ fs0 = fs
    /\ movie_dirs = {} /\ movie_dir = <<>> /\ entries = {}
    /\ renamed = {} /\ listed = {} /\ errors = {}
    /\ walk = WalkStart
    /\ found = {} /\ persian_dir = <<>> /\ files_to_move = {} /\ after = <<>>

NextFlatten ==
    FlattenPass \/ FlattenCollect \/ FlattenMove \/ FlattenRemove \/ FlattenDone

FlattenSpec == InitFlatten /\ [][NextFlatten]_vars

----------------------------------------------------------------------------
(* The contract of flatten_persian_folders *)

FlattenFinished == op = "flatten" /\ pc = "done"

\* the folders named persian of the filesystem f
PersianFolders(f) == {q \in DOMAIN f : f[q].kind = "dir" /\ Name(q) = PersianName}

\* a persian folder that does not lie below another one
Outermost(q) == \A k \in 1..(Len(q) - 1) : q[k] # PersianName

\* the files of f below the directory d
FilesBelow(f, d) == {q \in DOMAIN f : f[q].kind = "file" /\ IsBelow(q, d)}

\* new is old, or <stem>_<n><suffix> of old
KeepsOrNumbers(new, old) ==
    \/ new = old
    \/ \E n \in 1..Cardinality(DOMAIN fs0) :
          new = Stem(old) \o <<"_">> \o Decimal(n) \o Suffix(old)

\* the file that was at q is now directly in the folder d, under its name or a
\* numbered one
FlattenedInto(q, d) ==
    \E r \in DOMAIN fs :
        /\ fs[r] = fs0[q]
        /\ Parent(r) = d
        /\ KeepsOrNumbers(Name(r), Name(q))

\* every file there was is still there, once
NothingOverwritten ==
    \A q \in DOMAIN fs0 :
        fs0[q].kind = "file" => Cardinality({r \in DOMAIN fs : fs[r] = fs0[q]}) = 1

\* C11 as stated: when flatten_persian_folders has completed, every file that was below
\* a persian folder lies directly in such a folder, under its name or a numbered one;
\* no file was overwritten, and every persian folder has as many files below it as
\* before.
C11_EveryPersianFolderFlat ==
    FlattenFinished =>
        /\ \A d \in PersianFolders(fs0) : \A q \in FilesBelow(fs0, d) :
              \E e \in PersianFolders(fs0) : IsBelow(q, e) /\ FlattenedInto(q, e)
        /\ NothingOverwritten
        /\ \A d \in PersianFolders(fs0) :
              Cardinality(FilesBelow(fs, d)) = Cardinality(FilesBelow(fs0, d))

\* C11 amended: when flatten_persian_folders has completed, every file that was below a
\* persian folder that is not itself below another persian folder lies directly in that
\* folder, under its name or a numbered one; no file was overwritten, and every such
\* folder has as many files below it as before.
C11_OutermostPersianFolderFlat ==
    FlattenFinished =>
        /\ \A d \in PersianFolders(fs0) : Outermost(d) =>
              \A q \in FilesBelow(fs0, d) : FlattenedInto(q, d)
        /\ NothingOverwritten
        /\ \A d \in PersianFolders(fs0) : Outermost(d) =>
              Cardinality(FilesBelow(fs, d)) = Cardinality(FilesBelow(fs0, d))

\* a.srt directly in the folder, a_1.srt too, and a.srt in two subfolders: the two
\* arrive as a_2.srt and a_3.srt
C11_Witness ==
    /\ FlattenFinished
    /\ LET d == <<MovieName, PersianName>>
       IN  /\ {d \o <<ASrt>>, d \o <<A1Srt>>, d \o <<XDir, ASrt>>, d \o <<YDir, ZDir, ASrt>>}
                 \subseteq DOMAIN fs0
           /\ {fs[Append(d, Numbered(ASrt, 2))], fs[Append(d, Numbered(ASrt, 3))]}
                 = {fs0[d \o <<XDir, ASrt>>], fs0[d \o <<YDir, ZDir, ASrt>>]}
           /\ fs[d \o <<ASrt>>] = fs0[d \o <<ASrt>>]

----------------------------------------------------------------------------
(* move_zips_to_archive *)

DotZip == <<".", "z", "i", "p">>

\* the pattern *.zip: the name ends in .zip, as it is written
MatchesZip(name) == Len(name) >= 4 /\ SubSeq(name, Len(name) - 3, Len(name)) = DotZip

\* the entries of d the glob yields: files and directories alike
ZipMatches(f, d) == {q \in DOMAIN f : Len(q) = Len(d) + 1 /\ Parent(q) = d /\ MatchesZip(Name(q))}

\* 'archive' in zip_path.parts
InArchive(p) == \E k \in 1..Len(p) : p[k] = ArchiveName

\* archive_dir.mkdir(exist_ok=True) where nothing or a directory is at the path
Mkdir(f, p) == IF Exists(f, p) THEN f ELSE [q \in DOMAIN f \cup {p} |-> IF q = p THEN Dir ELSE f[q]]

\* os.rename(src, dst) where nothing is at dst: src goes there with all below it
OsRenameTree(f, src, dst) ==
    LET moved == {q \in DOMAIN f : q = src \/ IsBelow(q, src)}
        Moved(q) == dst \o SubSeq(q, Len(src) + 1, Len(q))
    IN  [r \in (DOMAIN f \ moved) \cup {Moved(q) : q \in moved} |->
            IF r \in DOMAIN f \ moved THEN f[r]
            ELSE f[CHOOSE q \in moved : Moved(q) = r]]

\* when the directory's matches are used up the glob lists its subdirectories
ZipResume(rest, f, d) == IF rest = {} THEN Descend(walk, f, d) ELSE walk

\* a directory without a match
ZipPass ==
    /\ op = "zips" /\ pc = "glob" /\ found = {} /\ walk # <<>>
    /\ \E d \in Head(walk) :
          /\ ZipMatches(fs, d) = {}
          /\ walk' = Descend(walk, fs, d)
    /\ UNCHANGED <<op, pc, alignVars, fsVars, found, persian_dir, files_to_move, after>>

\* the matches of a directory, listed once
ZipFind ==
    /\ op = "zips" /\ pc = "glob" /\ found = {} /\ walk # <<>>
    /\ \E d \in Head(walk) :
          /\ ZipMatches(fs, d) # {}
          /\ found' = ZipMatches(fs, d)
    /\ UNCHANGED <<op, pc, alignVars, fsVars, walk, persian_dir, files_to_move, after>>

\* if 'archive' in zip_path.parts: continue
ZipSkip ==
    /\ op = "zips" /\ pc = "glob"
    /\ \E zip_path \in found :
          /\ InArchive(zip_path)
          /\ found' = found \ {zip_path}
          /\ walk' = ZipResume(found', fs, Parent(zip_path))
    /\ UNCHANGED <<op, pc, alignVars, fsVars, persian_dir, files_to_move, after>>

\* archive_dir.mkdir(exist_ok=True) raises FileExistsError: archive is a file
ZipRaise ==
    /\ op = "zips" /\ pc = "glob"
    /\ \E zip_path \in found :
          /\ ~InArchive(zip_path)
          /\ IsFile(fs, Append(Parent(zip_path), ArchiveName))
    /\ pc' = "raised"
    /\ UNCHANGED <<op, alignVars, fsVars, extractVars>>

\* shutil.move(str(zip_path), str(target_path))
ZipMove ==
    /\ op = "zips" /\ pc = "glob"
    /\ \E zip_path \in found :
          LET archive_dir == Append(Parent(zip_path), ArchiveName)
              target_path == Append(archive_dir, Name(zip_path))
          IN  /\ ~InArchive(zip_path)
              /\ ~IsFile(fs, archive_dir)
              /\ ~Exists(fs, target_path)
              /\ fs' = OsRenameTree(Mkdir(fs, archive_dir), zip_path, target_path)
              /\ found' = found \ {zip_path}
              /\ walk' = ZipResume(found', fs', Parent(zip_path))
    /\ UNCHANGED <<op, pc, alignVars, fs0, movie_dirs, movie_dir, entries, renamed, listed,
                   errors, persian_dir, files_to_move, after>>

\* "Zip already exists in archive"
ZipKeep ==
    /\ op = "zips" /\ pc = "glob"
    /\ \E zip_path \in found :
          LET archive_dir == Append(Parent(zip_path), ArchiveName)
              target_path == Append(archive_dir, Name(zip_path))
          IN  /\ ~InArchive(zip_path)
              /\ ~IsFile(fs, archive_dir)
              /\ Exists(fs, target_path)
              /\ fs' = Mkdir(fs, archive_dir)
              /\ found' = found \ {zip_path}
              /\ walk' = ZipResume(found', fs', Parent(zip_path))
    /\ UNCHANGED <<op, pc, alignVars, fs0, movie_dirs, movie_dir, entries, renamed, listed,
                   errors, persian_dir, files_to_move, after>>

ZipDone ==
    /\ op = "zips" /\ pc = "glob"
    /\ found = {} /\ walk = <<>>
    /\ pc' = "done"
    /\ after' = Append(after, fs)
    /\ UNCHANGED <<op, alignVars, fsVars, walk, found, persian_dir, files_to_move>>

\* the function is run a second time on what the first run left
ZipAgain ==
    /\ op = "zips" /\ pc = "done"
    /\ Len(after) = 1
    /\ pc' = "glob"
    /\ walk' = WalkStart
    /\ UNCHANGED <<op, alignVars, fsVars, found, persian_dir, files_to_move, after>>

AZip == <<"a", ".", "z", "i", "p">>
BZip == <<"b", ".", "z", "i", "p">>
CZip == <<"c", ".", "z", "i", "p">>
DZip == <<"d", ".", "z", "i", "p">>

\* What a directory holds, below its own path: a.zip and b.zip; archive as an empty
\* folder, as a folder that has an a.zip or a c.zip deeper down, or as a file; a folder
\* named d.zip with c.zip in it; a.zip in the subfolder x/
ZipContents ==
    {[files |-> a \cup b \cup v.files \cup z \cup x, dirs |-> v.dirs] :
        a \in {{}, {<<AZip>>}},
        b \in {{}, {<<BZip>>}},
        v \in {[files |-> {}, dirs |-> {}],
               [files |-> {}, dirs |-> {<<ArchiveName>>}],
               [files |-> {<<ArchiveName, AZip>>}, dirs |-> {}],
               [files |-> {<<ArchiveName, XDir, CZip>>}, dirs |-> {}],
               [files |-> {<<ArchiveName>>}, dirs |-> {}]},
        z \in {{}, {<<DZip, CZip>>}},
        x \in {{}, {<<XDir, AZip>>}}}

\* the directory is the root or a movie directory
ZipFileSystems ==
    {TreeOf({d \o q : q \in c.files}, {d \o q : q \in c.dirs} \cup ({d} \ {<<>>})) :
        d \in {<<>>, <<MovieName>>}, c \in ZipContents}

InitZips ==
    /\ op = "zips" /\ pc = "glob"
    /\ AlignIdle
    /\ fs \in ZipFileSystems
    /\ fs0 = fs
    /\ movie_dirs = {} /\ movie_dir = <<>> /\ entries = {}
    /\ renamed = {} /\ listed = {} /\ errors = {}
    /\ walk = WalkStart
    /\ found = {} /\ persian_dir = <<>> /\ files_to_move = {} /\ after = <<>>

NextZips ==
    \/ ZipPass \/ ZipFind \/ ZipSkip \/ ZipRaise \/ ZipMove \/ ZipKeep
    \/ ZipDone \/ ZipAgain

ZipSpec == InitZips /\ [][NextZips]_vars

----------------------------------------------------------------------------
(* The contract of move_zips_to_archive *)

\* the first run has completed
ZipsFinished == op = "zips" /\ Len(after) >= 1

\* a name that ends in .zip
IsZipName(n) == Len(n) >= 4 /\ SubSeq(n, Len(n) - 3, Len(n)) = <<".", "z", "i", "p">>

\* the .zip files of the filesystem f
ZipFiles(f) == {q \in DOMAIN f : f[q].kind = "file" /\ IsZipName(q[Len(q)])}

\* the path lies below a folder named archive
BelowArchive(q) == \E k \in 1..(Len(q) - 1) : q[k] = <<"a", "r", "c", "h", "i", "v", "e">>

\* where the archive folder of q's parent directory would have q
Archived(q) == SubSeq(q, 1, Len(q) - 1) \o <<<<"a", "r", "c", "h", "i", "v", "e">>, q[Len(q)]>>

\* the .zip file q of the start is in the archive folder of its parent directory, or
\* was kept from it by the entry of its name there, and then both are as they were
ArchivedOrKept(g, q) ==
    IF Archived(q) \in DOMAIN fs0
    THEN /\ q \in DOMAIN g /\ g[q] = fs0[q]
         /\ Archived(q) \in DOMAIN g /\ g[Archived(q)] = fs0[Archived(q)]
    ELSE /\ q \notin DOMAIN g
         /\ Archived(q) \in DOMAIN g /\ g[Archived(q)] = fs0[q]

\* every file of the start is in g, once
EveryFileKept(g) ==
    \A q \in DOMAIN fs0 :
        fs0[q].kind = "file" => Cardinality({r \in DOMAIN g : g[r] = fs0[q]}) = 1

\* a second run changes nothing
SecondRunChangesNothing == Len(after) = 2 => after[2] = after[1]

\* C12 as stated: when move_zips_to_archive has completed, every .zip file that was
\* outside an archive folder is in the archive folder of its parent directory, unless
\* an entry of its name was there, and then both are as they were; the .zip files below
\* an archive folder are where they were, no file was overwritten, and a second run
\* changes nothing.
C12_EveryZipArchived ==
    ZipsFinished =>
        /\ \A q \in ZipFiles(fs0) : ~BelowArchive(q) => ArchivedOrKept(after[1], q)
        /\ \A q \in ZipFiles(fs0) :
              BelowArchive(q) => (q \in DOMAIN after[1] /\ after[1][q] = fs0[q])
        /\ EveryFileKept(after[1])
        /\ SecondRunChangesNothing

\* the path lies below a folder whose own name ends in .zip
BelowZipFolder(q) == \E k \in 1..(Len(q) - 1) : IsZipName(q[k])

\* What a completed run does establish: the statement of C12 for the .zip files that
\* do not lie below a folder whose own name ends in .zip; no file is overwritten, and
\* a second run changes nothing.
C12_ZipsOutsideZipFoldersArchived ==
    ZipsFinished =>
        /\ \A q \in ZipFiles(fs0) :
              (~BelowArchive(q) /\ ~BelowZipFolder(q)) => ArchivedOrKept(after[1], q)
        /\ \A q \in ZipFiles(fs0) :
              (BelowArchive(q) /\ ~BelowZipFolder(q)) =>
                  (q \in DOMAIN after[1] /\ after[1][q] = fs0[q])
        /\ EveryFileKept(after[1])
        /\ SecondRunChangesNothing

\* two runs: b.zip went to the archive folder, a.zip was kept from it by the a.zip there
C12_Witness ==
    /\ op = "zips" /\ Len(after) = 2
    /\ LET d == <<MovieName>>
       IN  /\ {d \o <<AZip>>, d \o <<BZip>>, d \o <<ArchiveName, AZip>>} \subseteq DOMAIN fs0
           /\ after[2][d \o <<ArchiveName, BZip>>] = fs0[d \o <<BZip>>]
           /\ after[2][d \o <<AZip>>] = fs0[d \o <<AZip>>]

----------------------------------------------------------------------------
(* rename_english_to_persian *)

EnglishName == <<"e", "n", "g", "l", "i", "s", "h">>

\* a test that does not look for a persian entry
ShouldRenameUnchecked(f, english_dir, target_dir) == Exists(f, english_dir)

\* if english_dir.exists() and not persian_dir.exists()
ShouldRename(f, english_dir, target_dir) ==
    Exists(f, english_dir) /\ ~Exists(f, target_dir)

\* a directory without an entry named english
EnglishPass ==
    /\ op = "english" /\ pc = "glob" /\ walk # <<>>
    /\ \E d \in Head(walk) :
          /\ ~Exists(fs, Append(d, EnglishName))
          /\ walk' = Descend(walk, fs, d)
    /\ UNCHANGED <<op, pc, alignVars, fsVars, found, persian_dir, files_to_move, after>>

\* english_dir.rename(persian_dir)
EnglishRename ==
    /\ op = "english" /\ pc = "glob" /\ walk # <<>>
    /\ \E d \in Head(walk) :
          LET english_dir == Append(d, EnglishName)
              target_dir == Append(d, PersianName)
          IN  /\ Exists(fs, english_dir)
              /\ ShouldRename(fs, english_dir, target_dir)
              /\ fs' = OsRenameTree(fs, english_dir, target_dir)
              /\ renamed' = renamed \cup {english_dir}
              /\ walk' = Descend(walk, fs', d)
    /\ UNCHANGED <<op, pc, alignVars, fs0, movie_dirs, movie_dir, entries, listed, errors,
                   found, persian_dir, files_to_move, after>>

\* "Persian folder already exists"
EnglishKeep ==
    /\ op = "english" /\ pc = "glob" /\ walk # <<>>
    /\ \E d \in Head(walk) :
          LET english_dir == Append(d, EnglishName)
              target_dir == Append(d, PersianName)
          IN  /\ Exists(fs, english_dir)
              /\ ~ShouldRename(fs, english_dir, target_dir)
              /\ Exists(fs, target_dir)
              /\ listed' = listed \cup {target_dir}
              /\ walk' = Descend(walk, fs, d)
    /\ UNCHANGED <<op, pc, alignVars, fs, fs0, movie_dirs, movie_dir, entries, renamed,
                   errors, found, persian_dir, files_to_move, after>>

EnglishDone ==
    /\ op = "english" /\ pc = "glob"
    /\ walk = <<>>
    /\ pc' = "done"
    /\ after' = Append(after, fs)
    /\ UNCHANGED <<op, alignVars, fsVars, walk, found, persian_dir, files_to_move>>

\* a directory that carries the path it had at the start, which tells the
\* directories apart
Folder(origin) == [kind |-> "dir", origin |-> origin]

TreeOfFolders(files, dirs) ==
    [q \in files \cup dirs \cup Prefixes(files \cup dirs) |->
        IF q \in files THEN File(q) ELSE Folder(q)]

KDir == <<"k">>

\* What a directory holds, below its own path: english as an empty folder, with a file,
\* with an english folder of its own, or as a file; persian as a folder with a file,
\* as a file, or with an english folder in it; a subfolder k/ with an english folder
EnglishContents ==
    {[files |-> v.files \cup w.files \cup k, dirs |-> v.dirs] :
        v \in {[files |-> {}, dirs |-> {}],
               [files |-> {}, dirs |-> {<<EnglishName>>}],
               [files |-> {<<EnglishName, ASrt>>}, dirs |-> {}],
               [files |-> {<<EnglishName, EnglishName, ASrt>>}, dirs |-> {}],
               [files |-> {<<EnglishName>>}, dirs |-> {}]},
        w \in {[files |-> {}],
               [files |-> {<<PersianName, PSrt>>}],
               [files |-> {<<PersianName>>}],
               [files |-> {<<PersianName, EnglishName, CSrt>>}]},
        k \in {{}, {<<KDir, EnglishName, ASrt>>}}}

EnglishFileSystems ==
    {TreeOfFolders({d \o q : q \in c.files}, {d \o q : q \in c.dirs} \cup ({d} \ {<<>>})) :
        d \in {<<>>, <<MovieName>>}, c \in EnglishContents}

InitEnglish ==
    /\ op = "english" /\ pc = "glob"
    /\ AlignIdle
    /\ fs \in EnglishFileSystems
    /\ fs0 = fs
    /\ movie_dirs = {} /\ movie_dir = <<>> /\ entries = {}
    /\ renamed = {} /\ listed = {} /\ errors = {}
    /\ walk = WalkStart
    /\ found = {} /\ persian_dir = <<>> /\ files_to_move = {} /\ after = <<>>

NextEnglish == EnglishPass \/ EnglishRename \/ EnglishKeep \/ EnglishDone

EnglishSpec == InitEnglish /\ [][NextEnglish]_vars

----------------------------------------------------------------------------
(* The contract of rename_english_to_persian *)

EnglishFinished == op = "english" /\ pc = "done"

\* the entries of the start that are now in the filesystem as q was
Places(q) == {r \in DOMAIN fs : fs[r] = fs0[q]}

\* where the entry that was at q is now
Place(q) == CHOOSE r \in DOMAIN fs : fs[r] = fs0[q]

\* the folders named english there were
EnglishFolders == {q \in DOMAIN fs0 : fs0[q].kind = "dir" /\ q[Len(q)] = <<"e", "n", "g", "l", "i", "s", "h">>}

\* the entries named persian there were
PersianEntries == {q \in DOMAIN fs0 : q[Len(q)] = <<"p", "e", "r", "s", "i", "a", "n">>}

\* q had a persian entry beside it
HadPersianSibling(q) ==
    (SubSeq(q, 1, Len(q) - 1) \o <<<<"p", "e", "r", "s", "i", "a", "n">>>>) \in DOMAIN fs0

\* every entry there was is there, once, nothing else is, and each is in the directory
\* it was in: nothing was overwritten, and no folder was merged into another
SameTree ==
    /\ \A q \in DOMAIN fs0 : Cardinality(Places(q)) = 1
    /\ \A r \in DOMAIN fs : \E q \in DOMAIN fs0 : fs[r] = fs0[q]
    /\ \A q \in DOMAIN fs0 :
          LET r == Place(q)
          IN  /\ Len(r) = Len(q)
              /\ Len(q) > 1 => SubSeq(r, 1, Len(r) - 1) = Place(SubSeq(q, 1, Len(q) - 1))

\* C13: when rename_english_to_persian has completed, every folder that was named
\* english is named persian, in the directory it was in, unless it had a persian entry
\* beside it, and then it is named english as before; every persian entry there was has
\* kept its name and what it held, nothing was overwritten or merged.
C13_EnglishRenamedUnlessPersian ==
    EnglishFinished =>
        /\ SameTree
        /\ \A q \in EnglishFolders :
              Place(q)[Len(q)] = IF HadPersianSibling(q)
                                 THEN <<"e", "n", "g", "l", "i", "s", "h">>
                                 ELSE <<"p", "e", "r", "s", "i", "a", "n">>
        /\ \A q \in PersianEntries : Place(q)[Len(q)] = <<"p", "e", "r", "s", "i", "a", "n">>

\* an english folder beside a persian folder stays, and an english folder in the
\* subfolder k/, with nothing beside it, is renamed
C13_Witness ==
    /\ EnglishFinished
    /\ {<<MovieName, EnglishName, ASrt>>, <<MovieName, PersianName, PSrt>>,
        <<MovieName, KDir, EnglishName, ASrt>>} \subseteq DOMAIN fs0
    /\ fs[<<MovieName, EnglishName, ASrt>>] = fs0[<<MovieName, EnglishName, ASrt>>]
    /\ fs[<<MovieName, PersianName, PSrt>>] = fs0[<<MovieName, PersianName, PSrt>>]
    /\ fs[<<MovieName, KDir, PersianName, ASrt>>] = fs0[<<MovieName, KDir, EnglishName, ASrt>>]

============================================================================
